---- MODULE Spec2Model ----
(***************************************************************************)
(* Model of the text splitting microservice (src/src/main.py):             *)
(* TextSplitter.split and its backward scan, Sentence / ResponseBody /     *)
(* RequestBody validation and the record stream of                         *)
(* RequestBody._split_sentences.                                           *)
(*                                                                         *)
(* A text is a sequence of one-character strings.  Python's None is the    *)
(* value None (-1), which no index takes.                                  *)
(***************************************************************************)
EXTENDS Integers, Sequences, FiniteSets, TLC

(* Settings.  The two maxima are scaled down from 256 and 4194304 so that   *)
(* every text can be enumerated; the request maximum spans two full        *)
(* windows, so texts whose length is a multiple of the window are covered. *)
request_min_length == 1
request_max_length == 8
response_min_length == 1
response_max_length == 4

(* The characters the request texts are drawn from: one Terminal, one      *)
(* Internal, one Space and one other character.                            *)
Alphabet == {".", ",", " ", "a"}

(* TextSplitter._terminal, _internal, _space *)
_terminal == {".", "!", "?", ";"}
_internal == {"-", ":", ","}
_space == {"\n", "\r", "\t", "\f", " "}

None == -1

(* Python's truthiness of an `int | None`: None and 0 are both false. *)
Truthy(x) == x # None /\ x # 0

Min(a, b) == IF a < b THEN a ELSE b

(* Python's text[a: b] for 0 <= a, 0 <= b; indices are 0-based. *)
Slice(text, a, b) ==
    LET hi == Min(b, Len(text))
    IN  IF a >= hi THEN << >> ELSE SubSeq(text, a + 1, hi)

(* text[i], 0-based *)
CharAt(text, i) == text[i + 1]

(* SplitterMemory(cursor) *)
SplitterMemory(cursor) ==
    [cursor |-> cursor, terminal_at |-> None, internal_at |-> None,
     space_at |-> None, character |-> ""]

(* Sentence without its field constraints: nothing is ever raised. *)
Sentence_unvalidated(text, end) ==
    [text |-> text, end |-> end, raised |-> FALSE]

(* Sentence(text=..., end=...): pydantic validates both fields and raises  *)
(* a ValidationError when one is out of range.                             *)
Sentence(text, end) ==
    [text |-> text, end |-> end,
     raised |-> ~ (/\ Len(text) >= response_min_length
                   /\ Len(text) <= response_max_length
                   /\ end >= response_min_length
                   /\ end <= response_max_length)]

(* _check_character without the `is None` tests: a later character of the  *)
(* class overwrites the marker.                                            *)
_check_character_overwriting(memory) ==
    IF memory.character \in _terminal
    THEN [memory EXCEPT !.terminal_at = memory.cursor]
    ELSE IF memory.character \in _internal
    THEN [memory EXCEPT !.internal_at = memory.cursor]
    ELSE IF memory.character \in _space
    THEN [memory EXCEPT !.space_at = memory.cursor]
    ELSE memory

(* TextSplitter._check_character *)
_check_character(memory) ==
    IF memory.character \in _terminal
    THEN [memory EXCEPT !.terminal_at = memory.cursor]
    ELSE IF memory.character \in _internal /\ memory.internal_at = None
    THEN [memory EXCEPT !.internal_at = memory.cursor]
    ELSE IF memory.character \in _space /\ memory.space_at = None
    THEN [memory EXCEPT !.space_at = memory.cursor]
    ELSE memory

(* One iteration of the while loop of _extract_sentence (cursor # -1). *)
ScanStep(text, memory) ==
    LET checked == _check_character(
                       [memory EXCEPT !.character = CharAt(text, memory.cursor)])
    IN  IF checked.terminal_at # None
        THEN checked
        ELSE [checked EXCEPT !.cursor = checked.cursor - 1]

(* The loop leaves when the cursor is -1 or a terminal was found (break). *)
ScanDone(memory) == memory.cursor = -1 \/ memory.terminal_at # None

RECURSIVE Scan(_, _)
Scan(text, memory) ==
    IF ScanDone(memory) THEN memory ELSE Scan(text, ScanStep(text, memory))

(* _process_points whose Space cut keeps the Space in the sentence. *)
_process_points_space_kept(text, memory) ==
    IF Truthy(memory.terminal_at)
    THEN Sentence(Slice(text, 0, memory.terminal_at + 1), memory.terminal_at + 1)
    ELSE IF Truthy(memory.internal_at)
    THEN Sentence(Slice(text, 0, memory.internal_at + 1), memory.internal_at + 1)
    ELSE IF Truthy(memory.space_at)
    THEN Sentence(Slice(text, 0, memory.space_at + 1), memory.space_at + 1)
    ELSE Sentence(text, Len(text))

(* _process_points whose hard cut consumes one character too many. *)
_process_points_hard_cut_off_by_one(text, memory) ==
    IF Truthy(memory.terminal_at)
    THEN Sentence(Slice(text, 0, memory.terminal_at + 1), memory.terminal_at + 1)
    ELSE IF Truthy(memory.internal_at)
    THEN Sentence(Slice(text, 0, memory.internal_at + 1), memory.internal_at + 1)
    ELSE IF Truthy(memory.space_at)
    THEN Sentence(Slice(text, 0, memory.space_at), memory.space_at + 1)
    ELSE Sentence(text, Len(text) + 1)

(* TextSplitter._process_points *)
_process_points(text, memory) ==
    IF Truthy(memory.terminal_at)
    THEN Sentence(Slice(text, 0, memory.terminal_at + 1), memory.terminal_at + 1)
    ELSE IF Truthy(memory.internal_at)
    THEN Sentence(Slice(text, 0, memory.internal_at + 1), memory.internal_at + 1)
    ELSE IF Truthy(memory.space_at)
    THEN Sentence(Slice(text, 0, memory.space_at), memory.space_at + 1)
    ELSE Sentence(text, Len(text))

(* TextSplitter._extract_sentence *)
_extract_sentence(text) ==
    _process_points(text, Scan(text, SplitterMemory(Len(text) - 1)))

(* ResponseBody(text=..., done=...), validated like Sentence.text *)
ResponseBody(text, done) ==
    [text |-> text, done |-> done,
     raised |-> ~ (/\ Len(text) >= response_min_length
                   /\ Len(text) <= response_max_length)]

(* RequestBody(text=...): FastAPI answers 422 when the validation fails. *)
RequestBody(text) ==
    [text |-> text,
     raised |-> ~ (/\ Len(text) >= request_min_length
                   /\ Len(text) <= request_max_length)]

(* The loop left only once start has reached the end of the text. *)
IsLastWindow_at_end(end, text_length) ==
    end - response_max_length >= text_length

(* `if end > text_length:` of TextSplitter.split *)
IsLastWindow(end, text_length) == end > text_length

(* The next start taken relative to the window instead of to the text. *)
NextStart_window_relative(start, sentence) == sentence.end

(* The next start advanced by the emitted text, not by the consumed range. *)
NextStart_by_text(start, sentence) == start + Len(sentence.text)

(* `start = start + sentence.end` of TextSplitter.split *)
NextStart(start, sentence) == start + sentence.end

(* The ResponseBody _split_sentences builds after the loop over the        *)
(* sentences.                                                              *)
LastRecord == ResponseBody(<< " " >>, TRUE)

(* JSON escaping of one character of a string, as model_dump_json writes   *)
(* it.                                                                     *)
json_escape(c) ==
    IF c = "\"" THEN << "\\", "\"" >>
    ELSE IF c = "\\" THEN << "\\", "\\" >>
    ELSE IF c = "\n" THEN << "\\", "n" >>
    ELSE IF c = "\r" THEN << "\\", "r" >>
    ELSE IF c = "\t" THEN << "\\", "t" >>
    ELSE IF c = "\f" THEN << "\\", "f" >>
    ELSE << c >>

RECURSIVE json_string(_)
json_string(str) ==
    IF str = << >> THEN << >>
    ELSE json_escape(Head(str)) \o json_string(Tail(str))

(* response.model_dump_json(): {"text":"...","done":...} *)
model_dump_json(response) ==
    << "{", "\"", "t", "e", "x", "t", "\"", ":", "\"" >>
        \o json_string(response.text)
        \o << "\"", ",", "\"", "d", "o", "n", "e", "\"", ":" >>
        \o (IF response.done THEN << "t", "r", "u", "e" >>
                             ELSE << "f", "a", "l", "s", "e" >>)
        \o << "}" >>

(* ''.join((response.model_dump_json(), '\n')) *)
Line(response) == model_dump_json(response) \o << "\n" >>

(* The lengths of the request bodies posted: every length within the      *)
(* limits, the empty text and one length above the maximum.                *)
InputLengths == 0..(request_max_length + 1)

(* The request bodies of length n posted: every text over Alphabet within  *)
(* the limits, one text above them.                                        *)
Inputs(n) ==
    IF n <= request_max_length
    THEN [1..n -> Alphabet]
    ELSE {[i \in 1..n |-> "a"]}

VARIABLES
    pc,         \* "idle", "split" (split suspended in its loop), "last"
                \* (suspended at the yield before break), "done", "raised",
                \* "rejected"
    text,       \* RequestBody.text, the argument of split
    start,      \* split's local start
    end,        \* split's local end
    sentences,  \* the strings split has yielded, in order
    records,    \* the lines _split_sentences has yielded, in order
    calls       \* history: one entry per call of _extract_sentence

vars == << pc, text, start, end, sentences, records, calls >>

(* One call of _extract_sentence, taken step by step. *)
VARIABLES
    scan_pc,    \* "idle", "loop" (at the loop test of _extract_sentence),
                \* "returned"
    scan_window, \* the text argument of _extract_sentence
    scan_memory, \* its SplitterMemory
    scan_result  \* the Sentence it returned

scan_vars == << scan_pc, scan_window, scan_memory, scan_result >>

(* Two split generators of the one module-level splitter, pulled in any    *)
(* order.                                                                  *)
VARIABLES
    gens,       \* per generator: its position, its text argument and the
                \* sentences it has yielded
    frames      \* the locals of split (text, start, end), per frame

conc_vars == << gens, frames >>

Generators == {1, 2}

Init ==
    /\ pc = "idle"
    /\ text = << >>
    /\ start = 0
    /\ end = 0
    /\ sentences = << >>
    /\ records = << >>
    /\ calls = << >>
    /\ scan_pc = "idle"
    /\ scan_window = << >>
    /\ scan_memory = SplitterMemory(-1)
    /\ scan_result = [text |-> << >>, end |-> 0, raised |-> FALSE]
    /\ gens = [g \in Generators |->
                  [pc |-> "new", text |-> << >>, sentences |-> << >>]]
    /\ frames = [g \in Generators |-> [text |-> << >>, start |-> 0, end |-> 0]]

(* POST /: the body is validated, then the stream over split is set up. *)
text_split(t) ==
    /\ pc = "idle"
    /\ text' = t
    /\ IF RequestBody(t).raised
       THEN /\ pc' = "rejected"
            /\ UNCHANGED << start, end >>
       ELSE /\ pc' = "split"
            /\ start' = 0
            /\ end' = response_max_length
    /\ UNCHANGED << sentences, records, calls >>
    /\ UNCHANGED << scan_vars, conc_vars >>

Call(window, sentence) ==
    [start |-> start, window |-> window, text |-> sentence.text,
     end |-> sentence.end, raised |-> sentence.raised]

(* What one pull of the stream does with the sentence split is about to    *)
(* yield: split yields it, _split_sentences wraps it into a record.        *)
Emit(sentence, pcnext) ==
    LET response == ResponseBody(sentence.text, FALSE)
    IN  IF sentence.raised
        THEN /\ pc' = "raised"
             /\ UNCHANGED << sentences, records >>
        ELSE /\ sentences' = Append(sentences, sentence.text)
             /\ IF response.raised
                THEN /\ pc' = "raised"
                     /\ UNCHANGED records
                ELSE /\ pc' = pcnext
                     /\ records' = Append(records, Line(response))

(* A loop iteration of split with end <= text_length. *)
SplitIterate ==
    /\ pc = "split"
    /\ ~ IsLastWindow(end, Len(text))
    /\ LET chunk_of_text == Slice(text, start, end)
           sentence == _extract_sentence(chunk_of_text)
       IN  /\ calls' = Append(calls, Call(chunk_of_text, sentence))
           /\ IF sentence.raised
              THEN UNCHANGED << start, end >>
              ELSE /\ start' = NextStart(start, sentence)
                   /\ end' = NextStart(start, sentence) + response_max_length
           /\ Emit(sentence, "split")
    /\ UNCHANGED text
    /\ UNCHANGED << scan_vars, conc_vars >>

(* The loop iteration with end > text_length: one sentence, then break. *)
SplitLast ==
    /\ pc = "split"
    /\ IsLastWindow(end, Len(text))
    /\ end' = Len(text)
    /\ LET chunk_of_text == Slice(text, start, Len(text))
           sentence == _extract_sentence(chunk_of_text)
       IN  /\ calls' = Append(calls, Call(chunk_of_text, sentence))
           /\ Emit(sentence, "last")
    /\ UNCHANGED << text, start >>
    /\ UNCHANGED << scan_vars, conc_vars >>

(* split returns after the break; _split_sentences yields its last record. *)
SplitReturn ==
    /\ pc = "last"
    /\ IF LastRecord.raised
       THEN /\ pc' = "raised"
            /\ UNCHANGED records
       ELSE /\ pc' = "done"
            /\ records' = Append(records, Line(LastRecord))
    /\ UNCHANGED << text, start, end, sentences, calls >>
    /\ UNCHANGED << scan_vars, conc_vars >>

(* A client posts a request body while the service is idle. *)
Request ==
    /\ pc = "idle"
    /\ \E n \in InputLengths : \E t \in Inputs(n) : text_split(t)

Next ==
    \/ Request
    \/ SplitIterate
    \/ SplitLast
    \/ SplitReturn

Spec == Init /\ [][Next]_vars

(***************************************************************************)
(* _extract_sentence step by step: one action per iteration of its loop.   *)
(***************************************************************************)

(* The windows split can pass: text[start: end] is at most                 *)
(* response_max_length long, and may be empty.                             *)
Windows(n) == [1..n -> Alphabet]

(* `memory: SplitterMemory = SplitterMemory(len(text) - 1)` *)
ScanCall(w) ==
    /\ scan_pc = "idle"
    /\ scan_window' = w
    /\ scan_memory' = SplitterMemory(Len(w) - 1)
    /\ scan_pc' = "loop"
    /\ UNCHANGED << scan_result, vars, conc_vars >>

ScanEnter ==
    /\ scan_pc = "idle"
    /\ \E n \in 0..response_max_length : \E w \in Windows(n) : ScanCall(w)

(* One iteration of `while memory.cursor != -1`. *)
ScanLoop ==
    /\ scan_pc = "loop"
    /\ ~ ScanDone(scan_memory)
    /\ scan_memory' = ScanStep(scan_window, scan_memory)
    /\ UNCHANGED << scan_pc, scan_window, scan_result, vars, conc_vars >>

(* `return self._process_points(text, memory)` *)
ScanReturn ==
    /\ scan_pc = "loop"
    /\ ScanDone(scan_memory)
    /\ scan_result' = _process_points(scan_window, scan_memory)
    /\ scan_pc' = "returned"
    /\ UNCHANGED << scan_window, scan_memory, vars, conc_vars >>

ScanNext ==
    \/ ScanEnter
    \/ ScanLoop
    \/ ScanReturn

ScanSpec == Init /\ [][ScanNext]_scan_vars

(***************************************************************************)
(* Two generators of splitter.split, each pulled one yield at a time.      *)
(***************************************************************************)

(* The frame that holds a generator's locals: every call of split has its  *)
(* own.                                                                    *)
Frame_shared(g) == 1

Frame(g) == g

(* The texts the two requests carry: accepted texts of up to a window and  *)
(* a half, over a Space and another character.                             *)
ConcAlphabet == {" ", "a"}
ConcLengths == request_min_length..(response_max_length + 2)
ConcTexts(n) == [1..n -> ConcAlphabet]

(* splitter.split(self.text): text_length, start and end are set up. *)
ConcCall(g, t) ==
    /\ gens[g].pc = "new"
    /\ gens' = [gens EXCEPT ![g] =
                    [pc |-> "split", text |-> t, sentences |-> << >>]]
    /\ frames' = [frames EXCEPT ![Frame(g)] =
                      [text |-> t, start |-> 0, end |-> response_max_length]]
    /\ UNCHANGED << vars, scan_vars >>

ConcRequest ==
    \E g \in Generators :
        /\ gens[g].pc = "new"
        /\ \E n \in ConcLengths : \E t \in ConcTexts(n) : ConcCall(g, t)

(* Generator g is resumed in a loop iteration with end <= text_length. *)
ConcIterate ==
    \E g \in Generators :
        LET f == frames[Frame(g)]
            sentence == _extract_sentence(Slice(f.text, f.start, f.end))
        IN  /\ gens[g].pc = "split"
            /\ ~ IsLastWindow(f.end, Len(f.text))
            /\ IF sentence.raised
               THEN /\ gens' = [gens EXCEPT ![g].pc = "raised"]
                    /\ UNCHANGED frames
               ELSE /\ frames' = [frames EXCEPT ![Frame(g)] =
                           [f EXCEPT
                               !.start = NextStart(f.start, sentence),
                               !.end = NextStart(f.start, sentence)
                                           + response_max_length]]
                    /\ gens' = [gens EXCEPT ![g].sentences =
                                    Append(@, sentence.text)]
            /\ UNCHANGED << vars, scan_vars >>

(* Generator g is resumed in the iteration with end > text_length. *)
ConcLast ==
    \E g \in Generators :
        LET f == frames[Frame(g)]
            sentence == _extract_sentence(Slice(f.text, f.start, Len(f.text)))
        IN  /\ gens[g].pc = "split"
            /\ IsLastWindow(f.end, Len(f.text))
            /\ frames' = [frames EXCEPT ![Frame(g)].end = Len(f.text)]
            /\ IF sentence.raised
               THEN gens' = [gens EXCEPT ![g].pc = "raised"]
               ELSE gens' = [gens EXCEPT ![g].pc = "last",
                                         ![g].sentences = Append(@, sentence.text)]
            /\ UNCHANGED << vars, scan_vars >>

(* Generator g is resumed after its last yield: break, and it returns. *)
ConcReturn ==
    \E g \in Generators :
        /\ gens[g].pc = "last"
        /\ gens' = [gens EXCEPT ![g].pc = "returned"]
        /\ UNCHANGED << frames, vars, scan_vars >>

ConcNext ==
    \/ ConcRequest
    \/ ConcIterate
    \/ ConcLast
    \/ ConcReturn

ConcSpec == Init /\ [][ConcNext]_conc_vars

(* split(text) run alone to its end: what it yields and whether it raises. *)
RECURSIVE SplitRun(_, _, _, _)
SplitRun(t, s, e, yielded) ==
    IF IsLastWindow(e, Len(t))
    THEN LET sentence == _extract_sentence(Slice(t, s, Len(t)))
         IN  IF sentence.raised
             THEN [sentences |-> yielded, raised |-> TRUE]
             ELSE [sentences |-> Append(yielded, sentence.text),
                   raised |-> FALSE]
    ELSE LET sentence == _extract_sentence(Slice(t, s, e))
         IN  IF sentence.raised
             THEN [sentences |-> yielded, raised |-> TRUE]
             ELSE SplitRun(t, NextStart(s, sentence),
                           NextStart(s, sentence) + response_max_length,
                           Append(yielded, sentence.text))

split(t) == SplitRun(t, 0, response_max_length, << >>)

TypeOK ==
    /\ pc \in {"idle", "split", "last", "done", "raised", "rejected"}
    /\ start \in 0..request_max_length
    /\ end \in 0..(request_max_length + response_max_length)
    /\ Len(sentences) <= Len(calls)

(***************************************************************************)
(* Vocabulary of the properties.                                           *)
(***************************************************************************)

LastCall == calls[Len(calls)]

(* split was started on an accepted request and has stopped: it yielded    *)
(* from its last window (and returned), or raised.                         *)
SplitReturned == pc \in {"last", "done"}
SplitStopped == pc \in {"last", "done", "raised"}

(* 0-based indices of the characters of window in class cls *)
IndicesOf(window, cls) == {i \in 0..(Len(window) - 1) : CharAt(window, i) \in cls}

Has(window, cls) == IndicesOf(window, cls) # {}

RightMost(window, cls) ==
    CHOOSE i \in IndicesOf(window, cls) : \A j \in IndicesOf(window, cls) : j <= i

CeilDiv(a, b) == (a + b - 1) \div b

(* The line the tests expect last: done_true of tests/test_fastapi.py *)
done_true ==
    << "{", "\"", "t", "e", "x", "t", "\"", ":", "\"", "D", "o", "n", "e", "\"",
       ",", "\"", "d", "o", "n", "e", "\"", ":", "t", "r", "u", "e", "}", "\n" >>

(* Whether a yielded line carries done=true / done=false *)
EndsWith(line, suffix) ==
    /\ Len(line) >= Len(suffix)
    /\ SubSeq(line, Len(line) - Len(suffix) + 1, Len(line)) = suffix

IsDoneLine(line) == EndsWith(line, << ":", "t", "r", "u", "e", "}", "\n" >>)

(***************************************************************************)
(* C1: when split has finished, the consumed ranges of the successive      *)
(* windows (start .. start + returned end) are contiguous, begin at 0 and  *)
(* end at len(text).                                                       *)
(***************************************************************************)
CoverageNoLoss ==
    SplitReturned =>
        /\ calls[1].start = 0
        /\ \A i \in 1..(Len(calls) - 1) :
               calls[i + 1].start = calls[i].start + calls[i].end
        /\ LastCall.start + LastCall.end = Len(text)

(***************************************************************************)
(* C2: every sentence split yields, and so the text of every done=false    *)
(* record, has a length within 1..response_max_length.                     *)
(***************************************************************************)
LengthBound ==
    /\ \A i \in 1..Len(sentences) :
           /\ Len(sentences[i]) >= 1
           /\ Len(sentences[i]) <= response_max_length
    /\ \A i \in 1..Len(records) :
           ~ IsDoneLine(records[i]) =>
               /\ i <= Len(sentences)
               /\ records[i] = Line([text |-> sentences[i], done |-> FALSE])

(* A finished stream with a sentence of the maximal and one of the minimal *)
(* length.                                                                 *)
LengthBoundWitness ==
    /\ pc = "done"
    /\ \E i \in 1..Len(sentences) : Len(sentences[i]) = response_max_length
    /\ \E i \in 1..Len(sentences) : Len(sentences[i]) = 1
    /\ Len(records) = Len(sentences) + 1

(***************************************************************************)
(* C3: for every accepted text split runs to completion without raising    *)
(* and _extract_sentence is never called on an empty window.               *)
(***************************************************************************)
Totality ==
    /\ pc # "raised"
    /\ \A i \in 1..Len(calls) : calls[i].window # << >>

(***************************************************************************)
(* C4: a non-empty window with a Terminal character is cut at its          *)
(* right-most Terminal character t: the sentence is window[0..t] and the   *)
(* end offset is t + 1.                                                    *)
(***************************************************************************)
PriorityLaw ==
    \A i \in 1..Len(calls) :
        LET window == calls[i].window
        IN  (window # << >> /\ Has(window, _terminal)) =>
                /\ calls[i].end = RightMost(window, _terminal) + 1
                /\ calls[i].text = SubSeq(window, 1, RightMost(window, _terminal) + 1)

(***************************************************************************)
(* C5: a non-empty window without a Terminal character is cut at its       *)
(* right-most Internal character if it has one, otherwise at its           *)
(* right-most Space character if it has one.                               *)
(***************************************************************************)
FallbackLaw ==
    \A i \in 1..Len(calls) :
        LET window == calls[i].window
        IN  (window # << >> /\ ~ Has(window, _terminal)) =>
                IF Has(window, _internal)
                THEN calls[i].end = RightMost(window, _internal) + 1
                ELSE Has(window, _space) =>
                         calls[i].end = RightMost(window, _space) + 1

(***************************************************************************)
(* C6: once the stream of an accepted request has ended, its lines are one *)
(* done=false record per sentence of split, in order, followed by exactly  *)
(* one done=true record; no done=false record ever follows a done=true     *)
(* record.                                                                 *)
(***************************************************************************)
StreamProtocol ==
    /\ \A i \in 1..Len(records) : IsDoneLine(records[i]) => i = Len(records)
    /\ pc \in {"done", "raised"} =>
           /\ Len(records) = Len(sentences) + 1
           /\ \A i \in 1..Len(sentences) :
                  records[i] = Line([text |-> sentences[i], done |-> FALSE])
           /\ IsDoneLine(records[Len(records)])

(***************************************************************************)
(* C7: the last line of every finished stream is                          *)
(* {"text":"Done","done":true}.                                            *)
(***************************************************************************)
TerminatingRecord ==
    pc = "done" => records[Len(records)] = done_true

(***************************************************************************)
(* C8: split on a text of length L >= 1 stops, after at most L and at      *)
(* least ceil(L / response_max_length) calls of _extract_sentence: every   *)
(* step of the running split is one more call, the calls never outnumber   *)
(* L (so the steps cannot go on for ever), and once split has stopped      *)
(* their number is at least ceil(L / response_max_length).                 *)
(***************************************************************************)
Termination ==
    /\ [][pc = "split" => Len(calls') = Len(calls) + 1]_vars
    /\ [](Len(calls) <= Len(text))
    /\ [](SplitStopped =>
              Len(calls) >= CeilDiv(Len(text), response_max_length))

(* split has stopped on a text of several windows after exactly            *)
(* ceil(L / response_max_length) calls.                                    *)
TerminationWitness ==
    /\ SplitStopped
    /\ Len(text) > response_max_length
    /\ Len(calls) = CeilDiv(Len(text), response_max_length)

(***************************************************************************)
(* C9: a window whose right-most boundary character of the highest class   *)
(* present sits at index 0 is cut there: the end offset is 1.              *)
(***************************************************************************)
IndexZeroBoundary ==
    \A i \in 1..Len(calls) :
        LET window == calls[i].window
            top == IF Has(window, _terminal) THEN _terminal
                   ELSE IF Has(window, _internal) THEN _internal
                   ELSE _space
        IN  (window # << >> /\ Has(window, top) /\ RightMost(window, top) = 0) =>
                calls[i].end = 1

(***************************************************************************)
(* C10: no sentence split yields begins or ends with a Space character.    *)
(***************************************************************************)
Trimming ==
    \A i \in 1..Len(sentences) :
        /\ sentences[i][1] \notin _space
        /\ sentences[i][Len(sentences[i])] \notin _space


(* The concatenation of a sequence of texts *)
RECURSIVE Concat(_)
Concat(seqs) ==
    IF seqs = << >> THEN << >> ELSE Head(seqs) \o Concat(Tail(seqs))

NoBoundary(t) ==
    \A i \in 1..Len(t) : t[i] \notin (_terminal \cup _internal \cup _space)

(***************************************************************************)
(* C11: on a text of length L >= 1 without Terminal, Internal or Space     *)
(* character split completes having yielded exactly                        *)
(* ceil(L / response_max_length) sentences, each of response_max_length    *)
(* characters except a possibly shorter last one, whose concatenation is   *)
(* the text.                                                               *)
(***************************************************************************)
HardCutChunking ==
    (SplitStopped /\ NoBoundary(text)) =>
        /\ SplitReturned
        /\ Len(sentences) = CeilDiv(Len(text), response_max_length)
        /\ \A i \in 1..(Len(sentences) - 1) :
               Len(sentences[i]) = response_max_length
        /\ Concat(sentences) = text


IsPrefix(p, q) == Len(p) <= Len(q) /\ p = SubSeq(q, 1, Len(p))

(***************************************************************************)
(* C12: two split generators of the one splitter, over any two texts and   *)
(* resumed in any order, each yield exactly the sentences split yields on  *)
(* its text when run alone (and raise exactly when it raises alone); the   *)
(* locals of one call are never those of the other.                        *)
(***************************************************************************)
Independence ==
    \A g \in Generators :
        LET alone == split(gens[g].text)
        IN  gens[g].pc # "new" =>
                /\ frames[Frame(g)].text = gens[g].text
                /\ IsPrefix(gens[g].sentences, alone.sentences)
                /\ gens[g].pc \in {"last", "returned"} =>
                       gens[g].sentences = alone.sentences /\ ~ alone.raised
                /\ gens[g].pc = "raised" =>
                       gens[g].sentences = alone.sentences /\ alone.raised

(* Both generators are in the middle of their runs over different texts,   *)
(* each having yielded one sentence of several.                            *)
IndependenceWitness ==
    /\ gens[1].pc = "split" /\ gens[2].pc = "split"
    /\ gens[1].text # gens[2].text
    /\ Len(gens[1].sentences) = 1 /\ Len(gens[2].sentences) = 1
    /\ gens[1].sentences # gens[2].sentences
    /\ frames[1].start # frames[2].start

Progress ==
    /\ [](\A i \in 1..Len(calls) :
              calls[i].window # << >> =>
                  /\ calls[i].end >= 1
                  /\ calls[i].end <= Len(calls[i].window))
    /\ [](start <= Len(text))
    /\ [][(pc = "split" /\ pc' = "split") => start' > start]_vars

(* split is in its loop after two iterations that advanced start. *)
ProgressWitness ==
    /\ pc = "split"
    /\ Len(calls) >= 2
    /\ start > calls[2].start
    /\ calls[2].start > calls[1].start


(***************************************************************************)
(* C16: every window starts exactly where the consumed range of the        *)
(* previous window ended, so the consumed ranges never overlap; every      *)
(* window is the substring of the text at its start, every yielded         *)
(* sentence is a prefix of its window, and the sentences are yielded in    *)
(* the order of their windows, whose starts increase.                      *)
(***************************************************************************)
NoDuplication ==
    /\ \A i \in 1..Len(calls) :
           /\ calls[i].window =
                  Slice(text, calls[i].start, calls[i].start + response_max_length)
           /\ Len(calls[i].text) <= Len(calls[i].window)
           /\ calls[i].text = SubSeq(calls[i].window, 1, Len(calls[i].text))
    /\ \A i \in 1..(Len(calls) - 1) :
           /\ calls[i + 1].start = calls[i].start + calls[i].end
           /\ calls[i + 1].start > calls[i].start
    /\ \A i \in 1..Len(sentences) : sentences[i] = calls[i].text

(* A finished stream of three windows, one of them cut at a Space. *)
NoDuplicationWitness ==
    /\ pc = "done"
    /\ Len(sentences) = 3
    /\ \E i \in 1..2 : Len(calls[i].text) < calls[i].end


(***************************************************************************)
(* Vocabulary of the scan.                                                 *)
(***************************************************************************)

(* The loop of _extract_sentence has stopped. *)
ScanStopped == scan_pc \in {"loop", "returned"} /\ ScanDone(scan_memory)

(* The indices the scan has visited: those above the cursor, and the       *)
(* cursor itself when the scan broke off there.                            *)
Visited ==
    {i \in 0..(Len(scan_window) - 1) :
        i > scan_memory.cursor \/ (i = scan_memory.cursor /\ scan_memory.terminal_at # None)}

IsLargestVisited(at, cls) ==
    /\ at \in Visited
    /\ CharAt(scan_window, at) \in cls
    /\ \A j \in Visited : CharAt(scan_window, j) \in cls => j <= at

(***************************************************************************)
(* C17: when the backward scan stops, terminal_at (if set) is the largest  *)
(* index of a Terminal character of the window and no index below it was   *)
(* visited; internal_at and space_at (if set) are the largest visited      *)
(* indices of an Internal / Space character, above terminal_at when that   *)
(* is set; a marker that is set is never overwritten during the scan.      *)
(***************************************************************************)
ScanMarkers ==
    /\ [](ScanStopped =>
              /\ scan_memory.terminal_at # None =>
                     /\ scan_memory.terminal_at = RightMost(scan_window, _terminal)
                     /\ \A j \in Visited : j >= scan_memory.terminal_at
              /\ scan_memory.internal_at # None =>
                     /\ IsLargestVisited(scan_memory.internal_at, _internal)
                     /\ scan_memory.terminal_at # None =>
                            scan_memory.internal_at > scan_memory.terminal_at
              /\ scan_memory.space_at # None =>
                     /\ IsLargestVisited(scan_memory.space_at, _space)
                     /\ scan_memory.terminal_at # None =>
                            scan_memory.space_at > scan_memory.terminal_at)
    /\ [][scan_pc = "loop" =>
              /\ scan_memory.terminal_at # None =>
                     scan_memory'.terminal_at = scan_memory.terminal_at
              /\ scan_memory.internal_at # None =>
                     scan_memory'.internal_at = scan_memory.internal_at
              /\ scan_memory.space_at # None =>
                     scan_memory'.space_at = scan_memory.space_at]_scan_vars

(* A scan that stopped at a Terminal character after passing a Space and   *)
(* two Internal characters.                                                *)
ScanMarkersWitness ==
    /\ scan_pc = "returned"
    /\ scan_memory.terminal_at # None
    /\ scan_memory.space_at # None
    /\ scan_memory.internal_at # None
    /\ Cardinality(IndicesOf(scan_window, _internal) \cap Visited) = 2

(***************************************************************************)
(* C15: whenever _extract_sentence cuts at a Space character at index s    *)
(* (the `elif memory.space_at:` branch), the sentence is window[0..s)      *)
(* without the Space and the end offset is s + 1; in every call the        *)
(* characters consumed but not emitted, window[len(sentence) .. end), are  *)
(* none or exactly one character of the Space class.                       *)
(***************************************************************************)
SpaceCutTaken ==
    /\ ~ Truthy(scan_memory.terminal_at)
    /\ ~ Truthy(scan_memory.internal_at)
    /\ Truthy(scan_memory.space_at)

SpaceCut ==
    scan_pc = "returned" =>
        LET sentence == scan_result.text
            skipped == SubSeq(scan_window, Len(sentence) + 1, scan_result.end)
        IN  /\ SpaceCutTaken =>
                   /\ CharAt(scan_window, scan_memory.space_at) \in _space
                   /\ sentence = SubSeq(scan_window, 1, scan_memory.space_at)
                   /\ scan_result.end = scan_memory.space_at + 1
            /\ Len(sentence) <= Len(scan_window)
            /\ sentence = SubSeq(scan_window, 1, Len(sentence))
            /\ scan_result.end <= Len(scan_window)
            /\ \/ skipped = << >>
               \/ Len(skipped) = 1 /\ skipped[1] \in _space

(* A returned call that cut at a Space in the middle of the window. *)
SpaceCutWitness ==
    /\ scan_pc = "returned"
    /\ SpaceCutTaken
    /\ scan_result.end < Len(scan_window)
    /\ Len(scan_result.text) = scan_result.end - 1
    /\ Len(scan_result.text) >= 2

====
